---- MODULE Spec2Model ----
(***************************************************************************)
(* A model of mrpt::vision::CFeature / CFeatureList (CFeature.h).          *)
(*                                                                         *)
(* Three specifications share the variables:                               *)
(*   SpecList  the container operations of CFeatureList and the queries    *)
(*             get_type, getMaxID, getByID;                                *)
(*   SpecKD    the container operations together with nearest(), which is  *)
(*             answered from the KD-tree index of KDTreeCapable;           *)
(*   SpecDist  the descriptor distance functions of CFeature applied to a  *)
(*             pair of features.                                           *)
(*                                                                         *)
(* A CFeaturePtr is modelled as a sequence: <<>> is the NULL smart pointer *)
(* and <<f>> points to the feature record f.  Distances are kept exact:    *)
(* a Euclidean distance d is represented by its square (sqrt is monotone)  *)
(* and a normalised one by the pair (square, divisor).                     *)
(***************************************************************************)
EXTENDS Integers, Sequences, FiniteSets, TLC

\* ------------------------------------------------------------------ bounds
MaxFeats == 3
MaxID == 2
MaxCoord == 1
MaxRows == 3
MaxLen == 2

\* ------------------------------------------------------- enum TFeatureType
featNotDefined == -1
featKLT == 0
featHarris == 1
featBCD == 2
featSIFT == 3
featSURF == 4
featBeacon == 5
featFAST == 6

TFeatureType ==
    {featNotDefined, featKLT, featHarris, featBCD, featSIFT, featSURF, featBeacon, featFAST}

\* ---------------------------------------------------- enum TDescriptorType
descAny == 0
descSIFT == 1
descSURF == 2
descSpinImages == 4
descPolarImages == 8
descLogPolarImages == 16

TDescriptorType ==
    {descAny, descSIFT, descSURF, descSpinImages, descPolarImages, descLogPolarImages}

VARIABLES m_feats, kdtree, fa, fb, ret

vars == <<m_feats, kdtree, fa, fb, ret>>

\* ------------------------------------------------------------ CFeaturePtr
NullPtr == <<>>

PtrTo(f) == <<f>>

\* The record every call leaves behind: the operation, its arguments, the
\* error it failed with ("" when it returned), and what it returned.
Returned(op, arg, err, out, val, div, angle) ==
    [op |-> op, arg |-> arg, err |-> err, out |-> out, val |-> val, div |-> div,
     angle |-> angle]

Void(op, arg) == Returned(op, arg, "", NullPtr, 0, 1, 0)

Failed(op, arg, err) == Returned(op, arg, err, NullPtr, 0, 1, 0)

\* Features handed to the list by a detector: every ID and two detector types.
ListFeatures == [ID : 1..MaxID, x : {0}, y : {0}, type : {featKLT, featSIFT}]

\* Features on the image grid, one per pixel, numbered row by row.
GridFeatures ==
    {[ID |-> 1 + x + y * (MaxCoord + 1), x |-> x, y |-> y, type |-> featKLT] :
        x \in 0..MaxCoord, y \in 0..MaxCoord}

\* The squared radii a nearest() query is asked with.
MaxDists == {0, 1}

\* ------------------------------------------- the TDescriptors of a CFeature
\* TDescriptors(): every descriptor empty, polarImgsNoRotation = false.
NoDescriptors ==
    [SIFT |-> <<>>, SURF |-> <<>>, SpinImg |-> <<>>, PolarImg |-> <<>>,
     LogPolarImg |-> <<>>, polarImgsNoRotation |-> FALSE]

\* Whether this feature has this kind of descriptor.
hasDescriptorSIFT(d) == Len(d.SIFT) # 0

\* Faulty variant: tests the SIFT vector instead of the SURF one.
hasDescriptorSURF_mutant(d) == Len(d.SIFT) # 0

hasDescriptorSURF(d) == Len(d.SURF) # 0

\* Faulty variant: a one-element spin image counts as absent.
hasDescriptorSpinImg_mutant(d) == Len(d.SpinImg) > 1

hasDescriptorSpinImg(d) == Len(d.SpinImg) # 0

\* Faulty variant: a one-row polar image counts as absent.
hasDescriptorPolarImg_mutant(d) == Len(d.PolarImg) > 1

\* size(PolarImg,1) > 0: the matrix has at least one row
hasDescriptorPolarImg(d) == Len(d.PolarImg) > 0

\* Faulty variant: tests PolarImg instead of LogPolarImg.
hasDescriptorLogPolarImg_mutant(d) == Len(d.PolarImg) > 0

hasDescriptorLogPolarImg(d) == Len(d.LogPolarImg) > 0

\* The values of a descriptor element, the rows of a polar image (one value
\* per range bin), and the descriptors built from them.
Values == {0, 1, 3}

RowValues == {<<0, 1>>, <<2, 0>>, <<2, 2>>}

Vec == UNION {[1..n -> Values] : n \in 0..MaxLen}

Mat == UNION {[1..r -> RowValues] : r \in 0..MaxRows}

\* Pairs of features (this, oFeature) the distance functions are applied to:
\* every combination of present and absent descriptors, every pair of vectors
\* in one vector descriptor, every pair of polar images in one polar
\* descriptor under every setting of polarImgsNoRotation.
SampleDescriptors ==
    [SIFT : {<<>>, <<2>>}, SURF : {<<>>, <<2>>}, SpinImg : {<<>>, <<2>>},
     PolarImg : {<<>>, << <<0, 1>> >>}, LogPolarImg : {<<>>, << <<0, 1>> >>},
     polarImgsNoRotation : {FALSE}]

VecPairs ==
    {<<[NoDescriptors EXCEPT ![k] = u], [NoDescriptors EXCEPT ![k] = v]>> :
        k \in {"SIFT", "SURF", "SpinImg"}, u \in Vec, v \in Vec}

PolarPairs ==
    {<<[NoDescriptors EXCEPT ![k] = A, !.polarImgsNoRotation = na],
       [NoDescriptors EXCEPT ![k] = B, !.polarImgsNoRotation = nb]>> :
        k \in {"PolarImg", "LogPolarImg"}, A \in Mat, B \in Mat,
        na \in BOOLEAN, nb \in BOOLEAN}

FeaturePairs == (SampleDescriptors \X SampleDescriptors) \cup VecPairs \cup PolarPairs

\* ----------------------------------------------- CFeature: distance functions
\* What a distance function hands back: the error it failed with, or the
\* distance sqrt(val)/div and the angle of the best shift.
Dist(val, div, angle) == [err |-> "", val |-> val, div |-> div, angle |-> angle]

DistError(err) == [err |-> err, val |-> 0, div |-> 1, angle |-> 0]

RECURSIVE SumSq(_, _, _)
SumSq(u, v, i) ==
    IF i > Len(u) THEN 0
    ELSE (u[i] - v[i]) * (u[i] - v[i]) + SumSq(u, v, i + 1)

\* The Euclidean distance between two vector descriptors.
VectorDistance(u, v, normalize_distances) ==
    IF Len(u) # Len(v) THEN DistError("DimensionMismatch")
    ELSE Dist(SumSq(u, v, 1), IF normalize_distances THEN Len(u) ELSE 1, 0)

descriptorSIFTDistanceTo(this, oFeature, normalize_distances) ==
    IF ~(hasDescriptorSIFT(this) /\ hasDescriptorSIFT(oFeature))
      THEN DistError("MissingDescriptor")
      ELSE VectorDistance(this.SIFT, oFeature.SIFT, normalize_distances)

descriptorSURFDistanceTo(this, oFeature, normalize_distances) ==
    IF ~(hasDescriptorSURF(this) /\ hasDescriptorSURF(oFeature))
      THEN DistError("MissingDescriptor")
      ELSE VectorDistance(this.SURF, oFeature.SURF, normalize_distances)

descriptorSpinImgDistanceTo(this, oFeature, normalize_distances) ==
    IF ~(hasDescriptorSpinImg(this) /\ hasDescriptorSpinImg(oFeature))
      THEN DistError("MissingDescriptor")
      ELSE VectorDistance(this.SpinImg, oFeature.SpinImg, normalize_distances)

\* desc2 with its rows (angular bins) circularly shifted by delta.
ShiftRows(desc2, delta) ==
    [i \in 1..Len(desc2) |-> desc2[((i - 1 + delta) % Len(desc2)) + 1]]

RECURSIVE SumSqRows(_, _, _)
SumSqRows(desc1, desc2, i) ==
    IF i > Len(desc1) THEN 0
    ELSE SumSq(desc1[i], desc2[i], 1) + SumSqRows(desc1, desc2, i + 1)

\* The search over the shifts delta..height-1: the smallest distance so far
\* and the shift that gave it.
RECURSIVE ShiftSearch(_, _, _, _, _)
ShiftSearch(desc1, desc2, delta, minDist, minDelta) ==
    IF delta >= Len(desc1) THEN <<minDist, minDelta>>
    ELSE LET dist == SumSqRows(desc1, ShiftRows(desc2, delta), 1) IN
         IF dist < minDist
           THEN ShiftSearch(desc1, desc2, delta + 1, dist, delta)
           ELSE ShiftSearch(desc1, desc2, delta + 1, minDist, minDelta)

internal_distanceBetweenPolarImages(desc1, desc2, normalize_distances, dont_shift_angle) ==
    LET height == Len(desc1)
        width == Len(desc1[1])
        dist0 == SumSqRows(desc1, desc2, 1)
        best == IF dont_shift_angle THEN <<dist0, 0>>
                ELSE ShiftSearch(desc1, desc2, 1, dist0, 0)
    IN Dist(best[1], IF normalize_distances THEN height * width ELSE 1,
            (best[2] * 360) \div height)

SameShape(desc1, desc2) ==
    /\ Len(desc1) = Len(desc2)
    /\ \A i \in 1..Len(desc1) : Len(desc1[i]) = Len(desc2[i])

descriptorPolarImgDistanceTo(this, oFeature, normalize_distances) ==
    IF ~(hasDescriptorPolarImg(this) /\ hasDescriptorPolarImg(oFeature))
      THEN DistError("MissingDescriptor")
    ELSE IF ~SameShape(this.PolarImg, oFeature.PolarImg)
      THEN DistError("DimensionMismatch")
    ELSE internal_distanceBetweenPolarImages(
             this.PolarImg, oFeature.PolarImg, normalize_distances,
             this.polarImgsNoRotation \/ oFeature.polarImgsNoRotation)

descriptorLogPolarImgDistanceTo(this, oFeature, normalize_distances) ==
    IF ~(hasDescriptorLogPolarImg(this) /\ hasDescriptorLogPolarImg(oFeature))
      THEN DistError("MissingDescriptor")
    ELSE IF ~SameShape(this.LogPolarImg, oFeature.LogPolarImg)
      THEN DistError("DimensionMismatch")
    ELSE internal_distanceBetweenPolarImages(
             this.LogPolarImg, oFeature.LogPolarImg, normalize_distances,
             this.polarImgsNoRotation \/ oFeature.polarImgsNoRotation)

\* descAny: the first descriptor present in this feature.
FirstDescriptor(this) ==
    IF hasDescriptorSIFT(this) THEN descSIFT
    ELSE IF hasDescriptorSURF(this) THEN descSURF
    ELSE IF hasDescriptorSpinImg(this) THEN descSpinImages
    ELSE IF hasDescriptorPolarImg(this) THEN descPolarImages
    ELSE IF hasDescriptorLogPolarImg(this) THEN descLogPolarImages
    ELSE descAny

descriptorDistanceTo(this, oFeature, descriptorToUse, normalize_distances) ==
    LET use == IF descriptorToUse = descAny THEN FirstDescriptor(this)
               ELSE descriptorToUse
    IN CASE use = descAny -> DistError("MissingDescriptor")
         [] use = descSIFT -> descriptorSIFTDistanceTo(this, oFeature, normalize_distances)
         [] use = descSURF -> descriptorSURFDistanceTo(this, oFeature, normalize_distances)
         [] use = descSpinImages ->
                descriptorSpinImgDistanceTo(this, oFeature, normalize_distances)
         [] use = descPolarImages ->
                descriptorPolarImgDistanceTo(this, oFeature, normalize_distances)
         [] use = descLogPolarImages ->
                descriptorLogPolarImgDistanceTo(this, oFeature, normalize_distances)

\* The calls, each made once on the pair (fa, fb) = (this, oFeature).
Called(op, arg, r) == Returned(op, arg, r.err, NullPtr, r.val, r.div, r.angle)

Flag(b) == IF b THEN 1 ELSE 0

call_descriptorDistanceTo(descriptorToUse, normalize_distances) ==
    /\ ret.op = "CFeature"
    \* the float result carries no angle
    /\ ret' = [Called("descriptorDistanceTo",
                      <<descriptorToUse, Flag(normalize_distances)>>,
                      descriptorDistanceTo(fa, fb, descriptorToUse, normalize_distances))
                  EXCEPT !.angle = 0]
    /\ UNCHANGED <<m_feats, kdtree, fa, fb>>

call_descriptorPolarImgDistanceTo(normalize_distances) ==
    /\ ret.op = "CFeature"
    /\ ret' = Called("descriptorPolarImgDistanceTo",
                     <<descPolarImages, Flag(normalize_distances)>>,
                     descriptorPolarImgDistanceTo(fa, fb, normalize_distances))
    /\ UNCHANGED <<m_feats, kdtree, fa, fb>>

call_descriptorLogPolarImgDistanceTo(normalize_distances) ==
    /\ ret.op = "CFeature"
    /\ ret' = Called("descriptorLogPolarImgDistanceTo",
                     <<descLogPolarImages, Flag(normalize_distances)>>,
                     descriptorLogPolarImgDistanceTo(fa, fb, normalize_distances))
    /\ UNCHANGED <<m_feats, kdtree, fa, fb>>

\* ----------------------------------------------------------------- SpecDist
InitDist ==
    /\ m_feats = <<>>
    /\ kdtree = [uptodate |-> FALSE, pts |-> <<>>]
    /\ \E p \in FeaturePairs : fa = p[1] /\ fb = p[2]
    /\ ret = Void("CFeature", <<>>)

NextDist ==
    \/ \E k \in TDescriptorType, n \in BOOLEAN : call_descriptorDistanceTo(k, n)
    \/ \E n \in BOOLEAN : call_descriptorPolarImgDistanceTo(n)
    \/ \E n \in BOOLEAN : call_descriptorLogPolarImgDistanceTo(n)

SpecDist == InitDist /\ [][NextDist]_vars

\* ------------------------------------------- CFeatureList: STL-like methods
size(feats) == Len(feats)

\* Faulty variant: a one-element list counts as empty.
empty_mutant(feats) == Len(feats) <= 1

empty(feats) == Len(feats) = 0

\* Faulty variant: indexes from the back.
at_mutant(feats, index) == feats[Len(feats) - index]

\* operator[](index), index counted from 0
at(feats, index) == feats[index + 1]

push_front(f) ==
    /\ Len(m_feats) < MaxFeats
    /\ m_feats' = <<f>> \o m_feats
    /\ ret' = Void("push_front", <<>>)
    /\ UNCHANGED <<kdtree, fa, fb>>

push_back(f) ==
    /\ Len(m_feats) < MaxFeats
    /\ m_feats' = Append(m_feats, f)
    /\ ret' = Void("push_back", <<>>)
    /\ UNCHANGED <<kdtree, fa, fb>>

erase(it) ==
    /\ it \in 1..Len(m_feats)
    /\ m_feats' = SubSeq(m_feats, 1, it - 1) \o SubSeq(m_feats, it + 1, Len(m_feats))
    /\ ret' = Void("erase", <<it - 1>>)
    /\ UNCHANGED <<kdtree, fa, fb>>

clear ==
    /\ m_feats' = <<>>
    /\ ret' = Void("clear", <<>>)
    /\ UNCHANGED <<kdtree, fa, fb>>

\* std::deque::resize: drops the tail, or appends value-initialised (NULL)
\* smart pointers.
resize(N) ==
    /\ N \in 0..MaxFeats
    /\ m_feats' = IF N <= Len(m_feats)
                    THEN SubSeq(m_feats, 1, N)
                    ELSE m_feats \o [i \in 1..(N - Len(m_feats)) |-> NullPtr]
    /\ ret' = Void("resize", <<N>>)
    /\ UNCHANGED <<kdtree, fa, fb>>

\* ------------------------------------------------------- CFeatureList queries
\* Dereferencing a NULL CFeaturePtr, or indexing the deque past its end, has
\* no defined result: the call may fail or hand back any value of its
\* return type.
Undefined(op, arg, outs, vals) ==
    {Failed(op, arg, "undefined")}
        \cup {Returned(op, arg, "", o, v, 1, 0) : o \in outs, v \in vals}

\* empty() ? featNotDefined : (*begin())->get_type()
get_type ==
    /\ IF empty(m_feats)
         THEN ret' = Returned("get_type", <<>>, "", NullPtr, featNotDefined, 1, 0)
         ELSE IF at(m_feats, 0) = NullPtr
           THEN ret' \in Undefined("get_type", <<>>, {NullPtr}, TFeatureType)
           ELSE ret' = Returned("get_type", <<>>, "", NullPtr, at(m_feats, 0)[1].type, 1, 0)
    /\ UNCHANGED <<m_feats, kdtree, fa, fb>>

HasNull(feats) == \E i \in 1..Len(feats) : feats[i] = NullPtr

\* The scan of getMaxID: keep_max over begin()..end().
RECURSIVE MaxIDFrom(_, _, _)
MaxIDFrom(feats, i, maxID) ==
    IF i >= size(feats) THEN maxID
    ELSE MaxIDFrom(feats, i + 1,
                   IF at(feats, i)[1].ID > maxID THEN at(feats, i)[1].ID ELSE maxID)

getMaxID ==
    /\ IF empty(m_feats)
         THEN ret' = Failed("getMaxID", <<>>, "EmptyCollection")
         ELSE IF HasNull(m_feats)
           THEN ret' \in Undefined("getMaxID", <<>>, {NullPtr}, 0..MaxID)
           ELSE ret' = Returned("getMaxID", <<>>, "", NullPtr,
                                MaxIDFrom(m_feats, 0, at(m_feats, 0)[1].ID), 1, 0)
    /\ UNCHANGED <<m_feats, kdtree, fa, fb>>

\* The scan of getByID: the index of the first slot whose feature has the ID,
\* size() when there is none, -1 when a NULL slot is read first.
RECURSIVE FindID(_, _, _)
FindID(feats, i, ID) ==
    IF i >= size(feats) THEN size(feats)
    ELSE IF at(feats, i) = NullPtr THEN -1
    ELSE IF at(feats, i)[1].ID = ID THEN i
    ELSE FindID(feats, i + 1, ID)

getByID(ID) ==
    /\ LET i == FindID(m_feats, 0, ID) IN
         IF i = -1
           THEN ret' \in Undefined("getByID", <<ID>>,
                                   {NullPtr} \cup {PtrTo(f) : f \in ListFeatures}, {0})
           ELSE IF i = size(m_feats)
             THEN ret' = Returned("getByID", <<ID>>, "", NullPtr, 0, 1, 0)
             ELSE ret' = Returned("getByID", <<ID>>, "", at(m_feats, i), 0, 1, 0)
    /\ UNCHANGED <<m_feats, kdtree, fa, fb>>

\* ----------------------------------------------------------------- SpecList
Init ==
    /\ m_feats = <<>>
    /\ kdtree = [uptodate |-> FALSE, pts |-> <<>>]
    /\ fa = NoDescriptors
    /\ fb = NoDescriptors
    /\ ret = Void("CFeatureList", <<>>)

NextList ==
    \/ \E f \in ListFeatures : push_front(PtrTo(f))
    \/ \E f \in ListFeatures : push_back(PtrTo(f))
    \/ \E it \in 1..MaxFeats : erase(it)
    \/ clear
    \/ \E N \in 0..MaxFeats : resize(N)
    \/ get_type
    \/ getMaxID
    \/ \E ID \in 0..MaxID : getByID(ID)

SpecList == Init /\ [][NextList]_vars

\* --------------------------------------------- KDTreeCapable and nearest()
\* kdtree_get_point_count
kdtree_get_point_count(feats) == size(feats)

\* kdtree_fill_point_data: data[i] = ((*this)[i]->x, (*this)[i]->y)
kdtree_fill_point_data(feats) ==
    [i \in 1..kdtree_get_point_count(feats) |-> <<at(feats, i - 1)[1].x, at(feats, i - 1)[1].y>>]

\* The index is rebuilt only when it has been marked as outdated.
rebuild_kdTree(tree, feats) ==
    IF tree.uptodate THEN tree
    ELSE [uptodate |-> TRUE, pts |-> kdtree_fill_point_data(feats)]

SqDistTo(p, x, y) == (p[1] - x) * (p[1] - x) + (p[2] - y) * (p[2] - y)

RECURSIVE ClosestFrom(_, _, _, _, _)
ClosestFrom(pts, i, x, y, best) ==
    IF i > Len(pts) THEN best
    ELSE ClosestFrom(pts, i + 1, x, y,
                     IF SqDistTo(pts[i], x, y) < SqDistTo(pts[best + 1], x, y)
                       THEN i - 1 ELSE best)

\* The index (from 0) of the indexed point closest to (x,y).
kdTreeClosestPoint2D(pts, x, y) == ClosestFrom(pts, 2, x, y, 0)

nearest(x, y, max_dist) ==
    LET arg == <<x, y, max_dist>>
        outs == {NullPtr} \cup {PtrTo(f) : f \in GridFeatures}
        dists == 0..(2 * MaxCoord * MaxCoord)
    IN
    /\ IF empty(m_feats)
         THEN /\ ret' = Returned("nearest", arg, "", NullPtr, max_dist, 1, 0)
              /\ UNCHANGED kdtree
         ELSE IF ~kdtree.uptodate /\ HasNull(m_feats)
           THEN /\ ret' \in Undefined("nearest", arg, outs, dists)
                /\ UNCHANGED kdtree
           ELSE LET tree == rebuild_kdTree(kdtree, m_feats)
                    closest_idx == kdTreeClosestPoint2D(tree.pts, x, y)
                    closest_dist == SqDistTo(tree.pts[closest_idx + 1], x, y)
                IN /\ kdtree' = tree
                   /\ IF closest_dist <= max_dist
                        THEN IF closest_idx < size(m_feats)
                          THEN ret' = Returned("nearest", arg, "",
                                               at(m_feats, closest_idx), closest_dist, 1, 0)
                          ELSE ret' \in Undefined("nearest", arg, outs, dists)
                        ELSE ret' = Returned("nearest", arg, "", NullPtr, max_dist, 1, 0)
    /\ UNCHANGED <<m_feats, fa, fb>>

\* ------------------------------------------------------------------- SpecKD
NextKD ==
    \/ \E f \in GridFeatures : push_front(PtrTo(f))
    \/ \E f \in GridFeatures : push_back(PtrTo(f))
    \/ \E it \in 1..MaxFeats : erase(it)
    \/ clear
    \/ \E N \in 0..MaxFeats : resize(N)
    \/ \E x \in 0..MaxCoord, y \in 0..MaxCoord, max_dist \in MaxDists : nearest(x, y, max_dist)

SpecKD == Init /\ [][NextKD]_vars

\* ================================================================== claims
\* The features held by the non-NULL slots of the list.
Contained == {m_feats[i][1] : i \in {j \in 1..Len(m_feats) : m_feats[j] # NullPtr}}

\* The (x,y) of every slot, in list order; a NULL slot has none.
Membership ==
    [i \in 1..Len(m_feats) |->
        IF m_feats[i] = NullPtr THEN <<>> ELSE <<m_feats[i][1].x, m_feats[i][1].y>>]

\* C1: nearest returns a contained feature at minimum distance from the query
\* point when that distance is <= the input max_dist, and overwrites max_dist
\* with it; otherwise it returns NULL and max_dist keeps its input value.
C1_NearestContract ==
    (ret.op = "nearest" /\ ~HasNull(m_feats)) =>
        LET x == ret.arg[1]
            y == ret.arg[2]
            max_dist == ret.arg[3]
            within == {f \in Contained : SqDistTo(<<f.x, f.y>>, x, y) <= max_dist}
        IN /\ ret.err = ""
           /\ IF within # {}
                THEN /\ ret.out # NullPtr
                     /\ ret.out[1] \in Contained
                     /\ \A g \in Contained :
                           SqDistTo(<<ret.out[1].x, ret.out[1].y>>, x, y)
                               <= SqDistTo(<<g.x, g.y>>, x, y)
                     /\ ret.val = SqDistTo(<<ret.out[1].x, ret.out[1].y>>, x, y)
                ELSE ret.out = NullPtr /\ ret.val = max_dist

\* C2: a nearest query is never answered from an index built over a point set
\* that differs from the current membership of the list.
C2_IndexIsCurrent ==
    (ret.op = "nearest" /\ ~empty(m_feats) /\ kdtree.uptodate) => kdtree.pts = Membership

\* C8: getMaxID fails with EmptyCollection on the empty list and otherwise
\* returns the greatest ID of the contained features, whatever their order.
C8_GetMaxID ==
    ret.op = "getMaxID" =>
        IF Len(m_feats) = 0 THEN ret.err = "EmptyCollection"
        ELSE ~HasNull(m_feats) =>
               /\ ret.err = ""
               /\ \E f \in Contained : f.ID = ret.val
               /\ \A f \in Contained : f.ID <= ret.val

C8_Witness ==
    /\ ret.op = "getMaxID"
    /\ ret.err = ""
    /\ Len(m_feats) = 3
    /\ ~HasNull(m_feats)
    /\ m_feats[1][1].ID < m_feats[2][1].ID
    /\ m_feats[3][1].ID < m_feats[2][1].ID

\* C9: getByID returns the first slot, in list order, whose feature has the ID,
\* also when several features share it, and NULL (no error) when none has it.
C9_GetByID ==
    ret.op = "getByID" =>
        LET matches == {i \in 1..Len(m_feats) :
                          m_feats[i] # NullPtr /\ m_feats[i][1].ID = ret.arg[1]}
            first == CHOOSE i \in matches : \A j \in matches : i <= j
        IN IF matches = {}
             THEN ~HasNull(m_feats) => (ret.err = "" /\ ret.out = NullPtr)
             ELSE (\A j \in 1..(first - 1) : m_feats[j] # NullPtr)
                    => (ret.err = "" /\ ret.out = m_feats[first])

C9_Witness ==
    /\ ret.op = "getByID"
    /\ ret.err = ""
    /\ Len(m_feats) = 3
    /\ ~HasNull(m_feats)
    /\ m_feats[1][1].ID # ret.arg[1]
    /\ m_feats[2][1].ID = ret.arg[1]
    /\ m_feats[3][1].ID = ret.arg[1]
    /\ m_feats[2] # m_feats[3]
    /\ ret.out = m_feats[2]

\* C10: get_type returns featNotDefined on the empty list and the type of the
\* first feature on every non-empty one, also after resize has grown the list.
C10_GetType ==
    ret.op = "get_type" =>
        /\ ret.err = ""
        /\ IF Len(m_feats) = 0 THEN ret.val = featNotDefined
           ELSE m_feats[1] # NullPtr /\ ret.val = m_feats[1][1].type

\* ------------------------------------------------ claims on the distances
RECURSIVE SumOver(_, _)
SumOver(S, f) ==
    IF S = {} THEN 0
    ELSE LET e == CHOOSE e \in S : TRUE IN f[e] + SumOver(S \ {e}, f)

\* The squared Euclidean distance between the matrix A and the matrix B with
\* its rows circularly shifted by s.
ShiftedDist(A, B, s) ==
    LET cells == (1..Len(A)) \X (1..Len(A[1]))
        diff(c) == A[c[1]][c[2]] - B[((c[1] - 1 + s) % Len(A)) + 1][c[2]]
    IN SumOver(cells, [c \in cells |-> diff(c) * diff(c)])

\* The descriptor of feature d a call with descriptor kind k compares.
Slot(d, k) ==
    CASE k = descSIFT -> d.SIFT
      [] k = descSURF -> d.SURF
      [] k = descSpinImages -> d.SpinImg
      [] k = descPolarImages -> d.PolarImg
      [] k = descLogPolarImages -> d.LogPolarImg

IsPolar(k) == k \in {descPolarImages, descLogPolarImages}

DistanceCall ==
    ret.op \in {"descriptorDistanceTo", "descriptorPolarImgDistanceTo",
                "descriptorLogPolarImgDistanceTo"}

\* A call that compared two polar (or log-polar) images of one shape.
PolarCompared ==
    /\ DistanceCall
    /\ IsPolar(ret.arg[1])
    /\ Slot(fa, ret.arg[1]) # <<>>
    /\ Len(Slot(fa, ret.arg[1])) = Len(Slot(fb, ret.arg[1]))

ImgA == Slot(fa, ret.arg[1])

ImgB == Slot(fb, ret.arg[1])

Shifts == 0..(Len(ImgA) - 1)

AngleOf(s) == (s * 360) \div Len(ImgA)

ReportsAngle == ret.op # "descriptorDistanceTo"

\* C3: with rotation search enabled on both features the polar distance is the
\* minimum over every row shift s of the distance between a and b shifted by s,
\* and the reported angle is s*360/numRows for a shift s achieving it.
C3_MinOverShifts ==
    (PolarCompared /\ ~fa.polarImgsNoRotation /\ ~fb.polarImgsNoRotation) =>
        /\ ret.err = ""
        /\ \A s \in Shifts : ret.val <= ShiftedDist(ImgA, ImgB, s)
        /\ \E s \in Shifts :
              /\ ret.val = ShiftedDist(ImgA, ImgB, s)
              /\ ReportsAngle => ret.angle = AngleOf(s)

C3_Witness ==
    /\ PolarCompared
    /\ ReportsAngle
    /\ ~fa.polarImgsNoRotation /\ ~fb.polarImgsNoRotation
    /\ Len(ImgA) = 3
    /\ ret.val > 0
    /\ ret.val = ShiftedDist(ImgA, ImgB, 2)
    /\ ret.val < ShiftedDist(ImgA, ImgB, 0)
    /\ ret.val < ShiftedDist(ImgA, ImgB, 1)
    /\ ret.angle = 240

\* M' is M circularly shifted by k rows: shifting M' by k in the search maps it
\* back onto M.
IsRotatedCopy(M2, M, k) == ShiftRows(M2, k) = M

C5_NoRotationSearch ==
    (PolarCompared /\ (fa.polarImgsNoRotation \/ fb.polarImgsNoRotation)) =>
        /\ ret.err = ""
        /\ ret.val = ShiftedDist(ImgA, ImgB, 0)
        /\ ReportsAngle => ret.angle = 0

C5_Witness ==
    /\ PolarCompared
    /\ ~fa.polarImgsNoRotation /\ fb.polarImgsNoRotation
    /\ \E s \in Shifts : ShiftedDist(ImgA, ImgB, s) < ShiftedDist(ImgA, ImgB, 0)
    /\ ret.err = ""
    /\ ret.val = ShiftedDist(ImgA, ImgB, 0)

\* C6: descriptorDistanceTo fails with MissingDescriptor, returning no
\* distance, when the kind is explicit and that descriptor is empty in a or in
\* b, and when the kind is descAny and a has no descriptor at all.
C6_MissingDescriptor ==
    ret.op = "descriptorDistanceTo" =>
        LET k == ret.arg[1] IN
        (\/ k # descAny /\ (Slot(fa, k) = <<>> \/ Slot(fb, k) = <<>>)
         \/ k = descAny /\ \A j \in TDescriptorType \ {descAny} : Slot(fa, j) = <<>>)
            => ret.err = "MissingDescriptor"

C6_Witness ==
    /\ ret.op = "descriptorDistanceTo"
    /\ ret.arg[1] = descSURF
    /\ fa.SURF # <<>>
    /\ fa.SIFT # <<>>
    /\ fb.SIFT # <<>>
    /\ fb.SURF = <<>>
    /\ ret.err = "MissingDescriptor"

\* C7: for features a and b that both have descriptor kind K, with equal
\* dimensions, the distance from a to b equals the distance from b to a, for
\* every kind, the polar ones with rotation search included.
C7_Symmetry ==
    (/\ ret.op = "descriptorDistanceTo"
     /\ ret.arg[1] # descAny
     /\ Slot(fa, ret.arg[1]) # <<>>
     /\ Len(Slot(fa, ret.arg[1])) = Len(Slot(fb, ret.arg[1]))) =>
        LET back == descriptorDistanceTo(fb, fa, ret.arg[1], ret.arg[2] = 1) IN
        /\ ret.err = ""
        /\ back.err = ""
        /\ back.val = ret.val
        /\ back.div = ret.div

C7_Witness ==
    /\ ret.op = "descriptorDistanceTo"
    /\ PolarCompared
    /\ ~fa.polarImgsNoRotation /\ ~fb.polarImgsNoRotation
    /\ Len(ImgA) = 3
    /\ ret.err = ""
    /\ ret.val > 0
    /\ ShiftedDist(ImgA, ImgB, 1) # ShiftedDist(ImgB, ImgA, 1)
    /\ ret.val = ShiftedDist(ImgA, ImgB, 1)
    /\ ret.val < ShiftedDist(ImgB, ImgA, 1)

====
